---- MODULE Spec2Model ----
(***************************************************************************)
(* Model of the MODEX clinic booking backend: the PostgreSQL tables of     *)
(* backend/init.sql, the data access functions of bookingModel.ts,         *)
(* slotModel.ts and doctorModel.ts, the transaction helper of config/db.ts *)
(* and the HTTP status mapping of the controllers.                         *)
(*                                                                         *)
(* PostgreSQL runs at its default isolation level (READ COMMITTED): a      *)
(* statement sees what is committed when it starts, a row locked by        *)
(* SELECT ... FOR UPDATE makes every other statement that locks, updates   *)
(* or deletes that row wait for the end of the locking transaction, and a  *)
(* statement sent with pool.query is a transaction of its own.  A waiting  *)
(* statement is an action that is not enabled yet.                         *)
(***************************************************************************)
EXTENDS Integers, Sequences, FiniteSets, TLC

\* ---------------------------------------------------------------- bounds
\* Slot ids handed out, and the largest capacity an admin asks for.
MaxSlots == 1
MaxCap == 2

\* pg's default pool size; new Pool({ connectionString }) sets no max.
PoolMax == 10

\* One doctor; the callers of POST /bookings, each sending one request with
\* its own name as userName; one admin session.
DoctorIds == {1}
SlotIds == 1..MaxSlots
Callers == {"Alice", "Bob", "Carol"}
TwoCallers == {"Alice", "Bob"}
Admins == {"admin"}

\* The start_time of the slots of the specifications that do not order slots.
FirstTime == 1

\* An identifier that no row ever has ("nonexistent-id").
NoSuchId == 0

\* A nullable value is a sequence: <<>> is null, <<x>> is the value x.
Null == <<>>
Some(x) == <<x>>

\* No transaction holds the row lock.
NoTxn == "none"

\* The userName each caller sends.
UserName(p) == p

VARIABLES
    doctors,      \* table doctors: the set of stored ids
    slots,        \* table slots: id -> [doctorId, startTime, capacity, isActive],
                  \* is_active being nullable
    bookings,     \* table bookings (committed rows): [id, slotId, userName, status]
    nextDoctor,   \* generateUuid(): ids are never handed out twice
    nextSlot,
    nextBooking,
    rowLock,      \* slots row lock: slot id -> the caller whose transaction holds it
    checkedOut,   \* callers holding a client of the pool
    txn,          \* per caller: position and locals of createBookingWithConcurrencyControl
    admin,        \* per admin: a two-statement admin operation in flight, with
                  \* the capacity its UPDATE replaced
    resp          \* the response of the request that completed last

vars == <<doctors, slots, bookings, nextDoctor, nextSlot, nextBooking,
          rowLock, checkedOut, txn, admin, resp>>

store == <<doctors, slots, bookings>>

\* ------------------------------------------------------------ responses
NoResp == [op |-> "none", id |-> NoSuchId, status |-> 0, body |-> Null]

Resp(op, id, status, body) == [op |-> op, id |-> id, status |-> status, body |-> body]

IdleTxn == [pc |-> "idle", slotId |-> NoSuchId, lockedSlot |-> Null,
            confirmedCount |-> -1, booking |-> Null, error |-> "", status |-> 0]

IdleAdmin == [op |-> "idle", id |-> NoSuchId, before |-> 0]

Init ==
    /\ doctors = {}
    /\ slots = <<>>
    /\ bookings = {}
    /\ nextDoctor = 1
    /\ nextSlot = 1
    /\ nextBooking = 1
    /\ rowLock = [s \in SlotIds |-> NoTxn]
    /\ checkedOut = {}
    /\ txn = [p \in Callers |-> IdleTxn]
    /\ admin = [a \in Admins |-> IdleAdmin]
    /\ resp = NoResp

\* ------------------------------------------------------- table helpers
\* SELECT COUNT(*) FROM bookings WHERE slot_id = $1 AND status = 'CONFIRMED'
CountConfirmed(bs, s) ==
    Cardinality({b \in bs : b.slotId = s /\ b.status = "CONFIRMED"})

\* Mutant of CascadeBookings: bookings.slot_id has no ON DELETE CASCADE and
\* the bookings of a removed slot stay.
CascadeNothing(bs, removedSlots) == bs

\* bookings.slot_id REFERENCES slots(id) ON DELETE CASCADE
CascadeBookings(bs, removedSlots) == {b \in bs : b.slotId \notin removedSlots}

\* slots.doctor_id REFERENCES doctors(id) ON DELETE CASCADE
SlotsOfDoctor(d) == {s \in DOMAIN slots : slots[s].doctorId = d}

RemoveSlots(removed) == [s \in (DOMAIN slots) \ removed |-> slots[s]]

\* Mutant of RowFree: an UPDATE or DELETE of the slot row does not wait for
\* the row lock of an open transaction.
RowFreeAlways(s) == TRUE

\* A statement that updates or deletes the slots row s waits while a
\* transaction holds the row lock taken by SELECT ... FOR UPDATE.
RowFree(s) == s \in DOMAIN rowLock => rowLock[s] = NoTxn

\* pool.connect() and pool.query() wait while every client of the pool is
\* checked out.
ClientAvailable == Cardinality(checkedOut) < PoolMax

\* Mutant of ReleaseLocks: the end of a transaction leaves its row locks
\* held.
KeepLocks(p) == rowLock

ReleaseLocks(p) ==
    [s \in DOMAIN rowLock |-> IF rowLock[s] = p THEN NoTxn ELSE rowLock[s]]

\* --------------------------------------------------- createBooking steps
\* The message of an error that is none of the two domain errors (a driver
\* or server error of the persistence layer).
DriverError == "driver error"

\* Mutant of SlotIsFull: the comparison is off by one.
SlotIsFullOffByOne(confirmedCount, capacity) == confirmedCount > capacity

\* bookingModel.ts: if (confirmedCount >= lockedSlot.capacity) throw "Slot is full."
SlotIsFull(confirmedCount, capacity) == confirmedCount >= capacity

\* Mutant of BookingErrorStatus: "Slot not found" is compared without its
\* final period, so the message falls through to the last branch.
BookingErrorStatusTypo(message) ==
    IF message = "Slot not found" THEN 404
    ELSE IF message = "Slot is full." THEN 409
    ELSE 500

\* publicController.ts handleCreateBooking: the status sent for a thrown message.
BookingErrorStatus(message) ==
    IF message = "Slot not found." THEN 404
    ELSE IF message = "Slot is full." THEN 409
    ELSE 500

\* handleCreateBooking: the body sent with each of the three statuses is
\* { error: message }.
BookingErrorBody(message) == [error |-> message]

\* withTransaction: const client = await pool.connect()
Connect(p, s) ==
    /\ resp = NoResp
    /\ txn[p].pc = "idle"
    /\ ClientAvailable
    /\ checkedOut' = checkedOut \cup {p}
    /\ txn' = [txn EXCEPT ![p] = [IdleTxn EXCEPT !.pc = "begin", !.slotId = s]]
    /\ UNCHANGED <<doctors, slots, bookings, nextDoctor, nextSlot, nextBooking,
                   rowLock, admin, resp>>

\* Mutant of Begin: after BEGIN the callback goes straight to the insert,
\* without the lock and the count.
BeginThenInsert(p) ==
    /\ resp = NoResp
    /\ txn[p].pc = "begin"
    /\ txn' = [txn EXCEPT ![p].pc = "insert"]
    /\ UNCHANGED <<doctors, slots, bookings, nextDoctor, nextSlot, nextBooking,
                   rowLock, checkedOut, admin, resp>>

\* withTransaction: await client.query("BEGIN")
Begin(p) ==
    /\ resp = NoResp
    /\ txn[p].pc = "begin"
    /\ txn' = [txn EXCEPT ![p].pc = "lock"]
    /\ UNCHANGED <<doctors, slots, bookings, nextDoctor, nextSlot, nextBooking,
                   rowLock, checkedOut, admin, resp>>

\* Mutant of LockSlotForUpdate: the SELECT has no FOR UPDATE, so it neither
\* waits for the row lock nor takes it.
LockWithoutForUpdate(p) ==
    LET s == txn[p].slotId IN
    /\ resp = NoResp
    /\ txn[p].pc = "lock"
    /\ txn' = IF s \notin DOMAIN slots
              THEN [txn EXCEPT ![p].pc = "rollback", ![p].error = "Slot not found."]
              ELSE [txn EXCEPT ![p].pc = "count",
                               ![p].lockedSlot =
                                   Some([id |-> s, capacity |-> slots[s].capacity])]
    /\ UNCHANGED <<doctors, slots, bookings, nextDoctor, nextSlot, nextBooking,
                   rowLock, checkedOut, admin, resp>>

\* Mutant of LockSlotForUpdate: the SELECT also requires is_active IS NOT
\* FALSE, so a soft-deleted slot is not found.
LockActiveSlotForUpdate(p) ==
    LET s == txn[p].slotId IN
    /\ resp = NoResp
    /\ txn[p].pc = "lock"
    /\ IF s \notin DOMAIN slots \/ slots[s].isActive = Some(FALSE)
       THEN /\ s \in DOMAIN rowLock => rowLock[s] = NoTxn
            /\ txn' = [txn EXCEPT ![p].pc = "rollback",
                                  ![p].error = "Slot not found."]
            /\ UNCHANGED rowLock
       ELSE /\ rowLock[s] = NoTxn
            /\ rowLock' = [rowLock EXCEPT ![s] = p]
            /\ txn' = [txn EXCEPT ![p].pc = "count",
                                  ![p].lockedSlot =
                                      Some([id |-> s, capacity |-> slots[s].capacity])]
    /\ UNCHANGED <<doctors, slots, bookings, nextDoctor, nextSlot, nextBooking,
                   checkedOut, admin, resp>>

\* lockSlotForUpdate: SELECT id, capacity FROM slots WHERE id = $1 FOR UPDATE.
\* No row: null, and createBooking throws "Slot not found.".  A row locked by
\* another transaction: the statement waits, and then reads the row as it is
\* once the lock is free.
LockSlotForUpdate(p) ==
    LET s == txn[p].slotId IN
    /\ resp = NoResp
    /\ txn[p].pc = "lock"
    /\ IF s \notin DOMAIN slots
       THEN /\ txn' = [txn EXCEPT ![p].pc = "rollback",
                                  ![p].error = "Slot not found."]
            /\ UNCHANGED rowLock
       ELSE /\ rowLock[s] = NoTxn
            /\ rowLock' = [rowLock EXCEPT ![s] = p]
            /\ txn' = [txn EXCEPT ![p].pc = "count",
                                  ![p].lockedSlot =
                                      Some([id |-> s, capacity |-> slots[s].capacity])]
    /\ UNCHANGED <<doctors, slots, bookings, nextDoctor, nextSlot, nextBooking,
                   checkedOut, admin, resp>>

\* countConfirmedBookingsInTransaction, then the capacity check of
\* createBookingWithConcurrencyControl on the count it returned.
CountConfirmedBookings(p) ==
    LET n == CountConfirmed(bookings, txn[p].slotId) IN
    /\ resp = NoResp
    /\ txn[p].pc = "count"
    /\ txn' = IF SlotIsFull(n, txn[p].lockedSlot[1].capacity)
              THEN [txn EXCEPT ![p].pc = "rollback",
                               ![p].confirmedCount = n,
                               ![p].error = "Slot is full."]
              ELSE [txn EXCEPT ![p].pc = "insert", ![p].confirmedCount = n]
    /\ UNCHANGED <<doctors, slots, bookings, nextDoctor, nextSlot, nextBooking,
                   rowLock, checkedOut, admin, resp>>

\* Mutant of InsertBooking: the INSERT is sent with pool.query, outside the
\* transaction, so the row is stored at once.
InsertOutsideTransaction(p) ==
    LET row == [id |-> nextBooking, slotId |-> txn[p].slotId,
                userName |-> UserName(p), status |-> "CONFIRMED"]
    IN
    /\ resp = NoResp
    /\ txn[p].pc = "insert"
    /\ txn' = [txn EXCEPT ![p].pc = "commit", ![p].booking = Some(row)]
    /\ bookings' = bookings \cup {row}
    /\ nextBooking' = nextBooking + 1
    /\ UNCHANGED <<doctors, slots, nextDoctor, nextSlot,
                   rowLock, checkedOut, admin, resp>>

\* Mutant of InsertBooking: the row is inserted with status PENDING.
InsertPendingBooking(p) ==
    /\ resp = NoResp
    /\ txn[p].pc = "insert"
    /\ txn' = [txn EXCEPT ![p].pc = "commit",
                          ![p].booking = Some([id |-> nextBooking,
                                               slotId |-> txn[p].slotId,
                                               userName |-> UserName(p),
                                               status |-> "PENDING"])]
    /\ nextBooking' = nextBooking + 1
    /\ UNCHANGED <<doctors, slots, bookings, nextDoctor, nextSlot,
                   rowLock, checkedOut, admin, resp>>

\* insertBookingInTransaction(client, slotId, userName, "CONFIRMED"): the row
\* is not visible to other transactions before COMMIT.
InsertBooking(p) ==
    /\ resp = NoResp
    /\ txn[p].pc = "insert"
    /\ txn' = [txn EXCEPT ![p].pc = "commit",
                          ![p].booking = Some([id |-> nextBooking,
                                               slotId |-> txn[p].slotId,
                                               userName |-> UserName(p),
                                               status |-> "CONFIRMED"])]
    /\ nextBooking' = nextBooking + 1
    /\ UNCHANGED <<doctors, slots, bookings, nextDoctor, nextSlot,
                   rowLock, checkedOut, admin, resp>>

\* withTransaction: await client.query("COMMIT")
Commit(p) ==
    /\ resp = NoResp
    /\ txn[p].pc = "commit"
    /\ bookings' = bookings \cup {txn[p].booking[1]}
    /\ rowLock' = ReleaseLocks(p)
    /\ txn' = [txn EXCEPT ![p].pc = "release"]
    /\ UNCHANGED <<doctors, slots, nextDoctor, nextSlot, nextBooking,
                   checkedOut, admin, resp>>

\* withTransaction: catch (error) { await client.query("ROLLBACK"); throw error; }
Rollback(p) ==
    /\ resp = NoResp
    /\ txn[p].pc = "rollback"
    /\ rowLock' = ReleaseLocks(p)
    /\ txn' = [txn EXCEPT ![p].pc = "release", ![p].booking = Null]
    /\ UNCHANGED <<doctors, slots, bookings, nextDoctor, nextSlot, nextBooking,
                   checkedOut, admin, resp>>

\* Mutant of Release: client.release() follows COMMIT inside the try block
\* instead of standing in the finally block.
ReleaseOnSuccessOnly(p) ==
    /\ resp = NoResp
    /\ txn[p].pc = "release"
    /\ checkedOut' = IF txn[p].error = "" THEN checkedOut \ {p} ELSE checkedOut
    /\ txn' = [txn EXCEPT ![p] = [IdleTxn EXCEPT
                    !.pc = "done",
                    !.slotId = txn[p].slotId,
                    !.booking = txn[p].booking,
                    !.error = txn[p].error,
                    !.status = IF txn[p].error = "" THEN 201
                               ELSE BookingErrorStatus(txn[p].error)]]
    /\ UNCHANGED <<doctors, slots, bookings, nextDoctor, nextSlot, nextBooking,
                   rowLock, admin, resp>>

\* withTransaction: finally { client.release(); }, then handleCreateBooking
\* answers 201 with the booking, or the status of the thrown message.
Release(p) ==
    /\ resp = NoResp
    /\ txn[p].pc = "release"
    /\ checkedOut' = checkedOut \ {p}
    /\ txn' = [txn EXCEPT ![p] = [IdleTxn EXCEPT
                    !.pc = "done",
                    !.slotId = txn[p].slotId,
                    !.booking = txn[p].booking,
                    !.error = txn[p].error,
                    !.status = IF txn[p].error = "" THEN 201
                               ELSE BookingErrorStatus(txn[p].error)]]
    /\ UNCHANGED <<doctors, slots, bookings, nextDoctor, nextSlot, nextBooking,
                   rowLock, admin, resp>>

\* ------------------------------------------- failing persistence calls
\* pool.connect() rejects: withTransaction throws before its try block, no
\* client was handed out.
ConnectFails(p, s) ==
    /\ resp = NoResp
    /\ txn[p].pc = "idle"
    /\ txn' = [txn EXCEPT ![p] = [IdleTxn EXCEPT !.pc = "done", !.slotId = s,
                                                 !.error = DriverError,
                                                 !.status = BookingErrorStatus(DriverError)]]
    /\ UNCHANGED <<doctors, slots, bookings, nextDoctor, nextSlot, nextBooking,
                   rowLock, checkedOut, admin, resp>>

\* BEGIN, the lock, the count, the insert or COMMIT rejects: the statement
\* has no effect and control passes to the catch block of withTransaction.
StatementFails(p) ==
    /\ resp = NoResp
    /\ txn[p].pc \in {"begin", "lock", "count", "insert", "commit"}
    /\ txn' = [txn EXCEPT ![p].pc = "rollback", ![p].error = DriverError]
    /\ UNCHANGED <<doctors, slots, bookings, nextDoctor, nextSlot, nextBooking,
                   rowLock, checkedOut, admin, resp>>

\* ROLLBACK itself rejects (the connection is gone): its error replaces the
\* one being handled, the server aborts the transaction of a lost connection.
RollbackFails(p) ==
    /\ resp = NoResp
    /\ txn[p].pc = "rollback"
    /\ rowLock' = ReleaseLocks(p)
    /\ txn' = [txn EXCEPT ![p].pc = "release", ![p].booking = Null,
                          ![p].error = DriverError]
    /\ UNCHANGED <<doctors, slots, bookings, nextDoctor, nextSlot, nextBooking,
                   checkedOut, admin, resp>>

\* ------------------------------------------------------ read operations
\* pg returns COUNT(*), a bigint, as its decimal text.
RECURSIVE BigintText(_)
BigintText(n) == IF n < 10 THEN <<n>> ELSE Append(BigintText(n \div 10), n % 10)

\* JavaScript Number(text) of a decimal text.
RECURSIVE Number(_)
Number(text) ==
    IF Len(text) = 0 THEN 0
    ELSE 10 * Number(SubSeq(text, 1, Len(text) - 1)) + text[Len(text)]

\* Mutant of IsNotFalse: the is_active filter is left out of the WHERE clause.
IsNotFalseUnfiltered(isActive) == TRUE

\* s.is_active IS NOT FALSE
IsNotFalse(isActive) == isActive # Some(FALSE)

\* json_agg(...) over the CONFIRMED bookings of the slot: NULL when there is none.
BookingsJson(s) ==
    LET rows == {[id |-> b.id, userName |-> b.userName, status |-> b.status] :
                    b \in {x \in bookings : x.slotId = s /\ x.status = "CONFIRMED"}}
    IN IF rows = {} THEN Null ELSE Some(rows)

\* Mutant of SlotMetaRow: the count also sees the uncommitted inserts of
\* open transactions (a dirty read).
SlotMetaRowDirty(s) ==
    LET pending == {txn[p].booking[1] : p \in {q \in DOMAIN txn : txn[q].booking # Null}} IN
    [id |-> s,
     doctor_id |-> slots[s].doctorId,
     start_time |-> slots[s].startTime,
     capacity |-> slots[s].capacity,
     confirmed_count |-> BigintText(CountConfirmed(bookings \cup pending, s)),
     bookings |-> BookingsJson(s)]

\* One row of the SELECT of getAllSlotsWithMeta / getSlotWithMetaById.
SlotMetaRow(s) ==
    [id |-> s,
     doctor_id |-> slots[s].doctorId,
     start_time |-> slots[s].startTime,
     capacity |-> slots[s].capacity,
     confirmed_count |-> BigintText(CountConfirmed(bookings, s)),
     bookings |-> BookingsJson(s)]

\* FROM slots s INNER JOIN doctors d ON d.id = s.doctor_id
\* WHERE s.is_active IS NOT FALSE
ActiveSlotIds ==
    {s \in DOMAIN slots : slots[s].doctorId \in doctors /\ IsNotFalse(slots[s].isActive)}

\* Mutant of AvailableSeats: the difference is clamped at 0.
AvailableSeatsClamped(capacity, confirmedCount) ==
    IF capacity - confirmedCount < 0 THEN 0 ELSE capacity - confirmedCount

\* availableSeats = row.capacity - confirmedCount
AvailableSeats(capacity, confirmedCount) == capacity - confirmedCount

\* The row => SlotWithMeta mapping of getAllSlotsWithMeta / getSlotWithMetaById.
ToSlotWithMeta(row) ==
    LET confirmedCount == Number(row.confirmed_count) IN
    [id |-> row.id,
     doctorId |-> row.doctor_id,
     startTime |-> row.start_time,
     capacity |-> row.capacity,
     confirmedCount |-> confirmedCount,
     availableSeats |-> AvailableSeats(row.capacity, confirmedCount),
     bookings |-> IF row.bookings = Null THEN {} ELSE row.bookings[1]]

\* getSlotWithMetaById(slotId): null when rowCount is 0.
getSlotWithMetaById(s) ==
    IF s \in ActiveSlotIds THEN Some(ToSlotWithMeta(SlotMetaRow(s))) ELSE Null

\* Mutant of OrderedByStartTime: the query has no ORDER BY clause.
Unordered(ids) ==
    {q \in [1..Cardinality(ids) -> ids] :
        \A i, j \in DOMAIN q : i # j => q[i] # q[j]}

\* ORDER BY s.start_time ASC: every order of the rows that is ascending in
\* start_time (rows with equal start_time come in any order).
OrderedByStartTime(ids) ==
    {q \in [1..Cardinality(ids) -> ids] :
        /\ \A i, j \in DOMAIN q : i # j => q[i] # q[j]
        /\ \A i, j \in DOMAIN q : i < j => slots[q[i]].startTime <= slots[q[j]].startTime}

\* getAllSlotsWithMeta(): the results the query can return.
getAllSlotsWithMeta ==
    {[i \in DOMAIN q |-> ToSlotWithMeta(SlotMetaRow(q[i]))] :
        q \in OrderedByStartTime(ActiveSlotIds)}

\* getBookingById(bookingId): null when rowCount is 0.
getBookingById(id) ==
    LET rows == {b \in bookings : b.id = id} IN
    IF rows = {} THEN Null ELSE Some(CHOOSE b \in rows : TRUE)

\* publicController.ts handleGetSlots
HandleGetSlots ==
    /\ resp = NoResp
    /\ ClientAvailable
    /\ \E list \in getAllSlotsWithMeta :
          resp' = Resp("getSlots", NoSuchId, 200, list)
    /\ UNCHANGED <<doctors, slots, bookings, nextDoctor, nextSlot, nextBooking,
                   rowLock, checkedOut, txn, admin>>

\* publicController.ts handleGetSlotById
HandleGetSlotById(s) ==
    /\ resp = NoResp
    /\ ClientAvailable
    /\ resp' = IF getSlotWithMetaById(s) = Null
               THEN Resp("getSlotById", s, 404, Null)
               ELSE Resp("getSlotById", s, 200, getSlotWithMetaById(s))
    /\ UNCHANGED <<doctors, slots, bookings, nextDoctor, nextSlot, nextBooking,
                   rowLock, checkedOut, txn, admin>>

\* publicController.ts handleGetBookingById
HandleGetBookingById(id) ==
    /\ resp = NoResp
    /\ ClientAvailable
    /\ resp' = IF getBookingById(id) = Null
               THEN Resp("getBookingById", id, 404, Null)
               ELSE Resp("getBookingById", id, 200, getBookingById(id))
    /\ UNCHANGED <<doctors, slots, bookings, nextDoctor, nextSlot, nextBooking,
                   rowLock, checkedOut, txn, admin>>

\* ----------------------------------------------------- admin operations
\* errorHandler: what next(error) sends for an error no handler maps.
UnhandledStatus == 500

\* The message of the error PostgreSQL raises for a violated CHECK or
\* FOREIGN KEY constraint, and the one updateSlotCapacity throws when its
\* read-back finds no slot.
ConstraintError == "violates constraint"
NotFoundAfterUpdate == "Slot not found after update."

\* errorHandler: res.status(500).json({ error, details: safeError.message })
ErrorHandlerBody(message) ==
    [error |-> "Internal server error.", details |-> message]

ErrorHandler(op, id, message) ==
    Resp(op, id, UnhandledStatus, Some(ErrorHandlerBody(message)))

\* slots.capacity INTEGER NOT NULL CHECK (capacity > 0)
CapacityCheck(capacity) == capacity > 0

\* handleCreateDoctor / createDoctor: INSERT INTO doctors
CreateDoctor ==
    /\ resp = NoResp
    /\ ClientAvailable
    /\ nextDoctor \in DoctorIds
    /\ doctors' = doctors \cup {nextDoctor}
    /\ nextDoctor' = nextDoctor + 1
    /\ resp' = Resp("createDoctor", nextDoctor, 201, Null)
    /\ UNCHANGED <<slots, bookings, nextSlot, nextBooking, rowLock, checkedOut,
                   txn, admin>>

\* handleCreateSlot / createSlot: INSERT INTO slots (is_active defaults to
\* TRUE); a doctor_id of no doctors row violates the foreign key and the
\* INSERT throws.
CreateSlot(d, startTime, capacity) ==
    /\ resp = NoResp
    /\ ClientAvailable
    /\ nextSlot <= MaxSlots
    /\ IF d \in doctors /\ CapacityCheck(capacity)
       THEN /\ slots' = [s \in DOMAIN slots \cup {nextSlot} |->
                           IF s = nextSlot
                           THEN [doctorId |-> d, startTime |-> startTime,
                                 capacity |-> capacity, isActive |-> Some(TRUE)]
                           ELSE slots[s]]
            /\ nextSlot' = nextSlot + 1
            /\ resp' = Resp("createSlot", nextSlot, 201, Null)
       ELSE /\ resp' = ErrorHandler("createSlot", NoSuchId, ConstraintError)
            /\ UNCHANGED <<slots, nextSlot>>
    /\ UNCHANGED <<doctors, bookings, nextDoctor, nextBooking, rowLock,
                   checkedOut, txn, admin>>

\* updateSlotCapacity, first statement: UPDATE slots SET capacity = $1
\* WHERE id = $2.  No row: "Slot not found." (404).  A value the CHECK
\* constraint rejects: the UPDATE throws and nothing is stored.
UpdateCapacity(a, s, capacity) ==
    /\ resp = NoResp
    /\ ClientAvailable
    /\ admin[a].op = "idle"
    /\ RowFree(s)
    /\ IF s \notin DOMAIN slots
       THEN /\ resp' = Resp("updateSlotCapacity", s, 404, Null)
            /\ UNCHANGED <<slots, admin>>
       ELSE IF ~CapacityCheck(capacity)
       THEN /\ resp' = ErrorHandler("updateSlotCapacity", s, ConstraintError)
            /\ UNCHANGED <<slots, admin>>
       ELSE /\ slots' = [slots EXCEPT ![s].capacity = capacity]
            /\ admin' = [admin EXCEPT ![a] = [op |-> "updateSlotCapacity", id |-> s,
                                                  before |-> slots[s].capacity]]
            /\ UNCHANGED resp
    /\ UNCHANGED <<doctors, bookings, nextDoctor, nextSlot, nextBooking, rowLock,
                   checkedOut, txn>>

\* updateSlotCapacity, second statement: getSlotWithMetaById(slotId); null
\* throws "Slot not found after update.", which handleUpdateSlot does not map.
UpdateCapacityRead(a) ==
    LET s == admin[a].id IN
    /\ resp = NoResp
    /\ ClientAvailable
    /\ admin[a].op = "updateSlotCapacity"
    /\ admin' = [admin EXCEPT ![a] = IdleAdmin]
    /\ resp' = IF getSlotWithMetaById(s) = Null
               THEN ErrorHandler("updateSlotCapacity", s, NotFoundAfterUpdate)
               ELSE Resp("updateSlotCapacity", s, 200, getSlotWithMetaById(s))
    /\ UNCHANGED <<doctors, slots, bookings, nextDoctor, nextSlot, nextBooking,
                   rowLock, checkedOut, txn>>

\* Mutant of SoftDeleteSlot: the soft delete also removes the bookings of the
\* slot.
SoftDeleteSlotWithBookings(s) ==
    /\ resp = NoResp
    /\ ClientAvailable
    /\ RowFree(s)
    /\ IF s \notin DOMAIN slots
       THEN /\ resp' = Resp("softDeleteSlot", s, 404, Null)
            /\ UNCHANGED <<slots, bookings>>
       ELSE /\ slots' = [slots EXCEPT ![s].isActive = Some(FALSE)]
            /\ bookings' = CascadeBookings(bookings, {s})
            /\ resp' = Resp("softDeleteSlot", s, 200, Null)
    /\ UNCHANGED <<doctors, nextDoctor, nextSlot, nextBooking, rowLock,
                   checkedOut, txn, admin>>

\* handleSoftDeleteSlot / softDeleteSlot: UPDATE slots SET is_active = FALSE
SoftDeleteSlot(s) ==
    /\ resp = NoResp
    /\ ClientAvailable
    /\ RowFree(s)
    /\ IF s \notin DOMAIN slots
       THEN /\ resp' = Resp("softDeleteSlot", s, 404, Null)
            /\ UNCHANGED slots
       ELSE /\ slots' = [slots EXCEPT ![s].isActive = Some(FALSE)]
            /\ resp' = Resp("softDeleteSlot", s, 200, Null)
    /\ UNCHANGED <<doctors, bookings, nextDoctor, nextSlot, nextBooking, rowLock,
                   checkedOut, txn, admin>>

\* Mutant of HardDeleteSlot: a slot with confirmed bookings is refused with
\* "Slot has confirmed bookings and cannot be deleted." (403).
HardDeleteSlotGuarded(s) ==
    /\ resp = NoResp
    /\ ClientAvailable
    /\ RowFree(s)
    /\ IF s \notin DOMAIN slots
       THEN /\ resp' = Resp("hardDeleteSlot", s, 404, Null)
            /\ UNCHANGED <<slots, bookings>>
       ELSE IF CountConfirmed(bookings, s) > 0
       THEN /\ resp' = Resp("hardDeleteSlot", s, 403, Null)
            /\ UNCHANGED <<slots, bookings>>
       ELSE /\ slots' = RemoveSlots({s})
            /\ bookings' = CascadeBookings(bookings, {s})
            /\ resp' = Resp("hardDeleteSlot", s, 200, Null)
    /\ UNCHANGED <<doctors, nextDoctor, nextSlot, nextBooking, rowLock,
                   checkedOut, txn, admin>>

\* Mutant of HardDeleteSlot: the rowCount of the DELETE is not looked at, and
\* a call that removed no row reports success too.
HardDeleteSlotIgnoringRowCount(s) ==
    /\ resp = NoResp
    /\ ClientAvailable
    /\ RowFree(s)
    /\ IF s \notin DOMAIN slots
       THEN /\ resp' = Resp("hardDeleteSlot", s, 200, Null)
            /\ UNCHANGED <<slots, bookings>>
       ELSE /\ slots' = RemoveSlots({s})
            /\ bookings' = CascadeBookings(bookings, {s})
            /\ resp' = Resp("hardDeleteSlot", s, 200, Null)
    /\ UNCHANGED <<doctors, nextDoctor, nextSlot, nextBooking, rowLock,
                   checkedOut, txn, admin>>

\* handleHardDeleteSlot / hardDeleteSlot: DELETE FROM slots WHERE id = $1,
\* cascading to the bookings of the slot.
HardDeleteSlot(s) ==
    /\ resp = NoResp
    /\ ClientAvailable
    /\ RowFree(s)
    /\ IF s \notin DOMAIN slots
       THEN /\ resp' = Resp("hardDeleteSlot", s, 404, Null)
            /\ UNCHANGED <<slots, bookings>>
       ELSE /\ slots' = RemoveSlots({s})
            /\ bookings' = CascadeBookings(bookings, {s})
            /\ resp' = Resp("hardDeleteSlot", s, 200, Null)
    /\ UNCHANGED <<doctors, nextDoctor, nextSlot, nextBooking, rowLock,
                   checkedOut, txn, admin>>

\* publicController.ts handleDeleteSlot: the status it sends for the message
\* of an error thrown by hardDeleteSlot.
DeleteSlotStatus(message) ==
    IF message = "Slot has confirmed bookings and cannot be deleted." THEN 403
    ELSE IF message = "Slot not found." THEN 404
    ELSE UnhandledStatus

\* publicController.ts handleDeleteSlot: it calls the same hardDeleteSlot,
\* which throws "Slot not found." and nothing else of its own.
HandleDeleteSlot(s) ==
    /\ resp = NoResp
    /\ ClientAvailable
    /\ RowFree(s)
    /\ IF s \notin DOMAIN slots
       THEN /\ resp' = Resp("handleDeleteSlot", s, DeleteSlotStatus("Slot not found."), Null)
            /\ UNCHANGED <<slots, bookings>>
       ELSE /\ slots' = RemoveSlots({s})
            /\ bookings' = CascadeBookings(bookings, {s})
            /\ resp' = Resp("handleDeleteSlot", s, 200, Null)
    /\ UNCHANGED <<doctors, nextDoctor, nextSlot, nextBooking, rowLock,
                   checkedOut, txn, admin>>

\* Mutant of DeleteSlotHandlers: publicRoutes.ts registers its handler on the
\* router before adminRoutes.ts does.
DeleteSlotHandlersSwapped == <<"handleDeleteSlot", "handleHardDeleteSlot">>

\* The handlers of DELETE /slots/:slotId on the admin router in the order of
\* their registration: adminRoutes.ts registers handleHardDeleteSlot when the
\* module is loaded, publicRoutes.ts, which imports that router, adds
\* handleDeleteSlot afterwards.
DeleteSlotHandlers == <<"handleHardDeleteSlot", "handleDeleteSlot">>

\* DELETE /api/admin/slots/:slotId: Express runs the first handler registered
\* for the path; both handlers end the response or call next(error), neither
\* passes the request on to the other.
DeleteSlotRoute(s) ==
    IF Head(DeleteSlotHandlers) = "handleHardDeleteSlot"
    THEN HardDeleteSlot(s)
    ELSE HandleDeleteSlot(s)

\* deleteDoctor, first statement: SELECT id FROM doctors WHERE id = $1
DeleteDoctorCheck(a, d) ==
    /\ resp = NoResp
    /\ ClientAvailable
    /\ admin[a].op = "idle"
    /\ IF d \notin doctors
       THEN /\ resp' = Resp("deleteDoctor", d, 404, Null)
            /\ UNCHANGED admin
       ELSE /\ admin' = [admin EXCEPT ![a] = [op |-> "deleteDoctor", id |-> d, before |-> 0]]
            /\ UNCHANGED resp
    /\ UNCHANGED <<doctors, slots, bookings, nextDoctor, nextSlot, nextBooking,
                   rowLock, checkedOut, txn>>

\* Mutant of DeleteDoctorDelete: only the doctors row is removed, its slots
\* and their bookings stay.
DeleteDoctorNoCascade(a) ==
    /\ resp = NoResp
    /\ ClientAvailable
    /\ admin[a].op = "deleteDoctor"
    /\ doctors' = doctors \ {admin[a].id}
    /\ admin' = [admin EXCEPT ![a] = IdleAdmin]
    /\ resp' = Resp("deleteDoctor", admin[a].id, 200, Null)
    /\ UNCHANGED <<slots, bookings, nextDoctor, nextSlot, nextBooking, rowLock,
                   checkedOut, txn>>

\* deleteDoctor, second statement: DELETE FROM doctors WHERE id = $1, cascading
\* to the slots of the doctor and to their bookings; the number of rows it
\* deleted is not looked at.
DeleteDoctorDelete(a) ==
    LET d == admin[a].id
        removed == SlotsOfDoctor(d)
    IN
    /\ resp = NoResp
    /\ ClientAvailable
    /\ admin[a].op = "deleteDoctor"
    /\ \A s \in removed : RowFree(s)
    /\ doctors' = doctors \ {d}
    /\ slots' = RemoveSlots(removed)
    /\ bookings' = CascadeBookings(bookings, removed)
    /\ admin' = [admin EXCEPT ![a] = IdleAdmin]
    /\ resp' = Resp("deleteDoctor", d, 200, Null)
    /\ UNCHANGED <<nextDoctor, nextSlot, nextBooking, rowLock, checkedOut, txn>>

\* A statement sent with pool.query rejects before it has any effect: the
\* request answers through next(error).  For the second statement of
\* updateSlotCapacity the UPDATE has been committed by then.
QueryFails ==
    /\ resp = NoResp
    /\ resp' = ErrorHandler("query", NoSuchId, DriverError)
    /\ UNCHANGED <<doctors, slots, bookings, nextDoctor, nextSlot, nextBooking,
                   rowLock, checkedOut, txn, admin>>

SecondQueryFails(a) ==
    /\ resp = NoResp
    /\ admin[a].op # "idle"
    /\ admin' = [admin EXCEPT ![a] = IdleAdmin]
    /\ resp' = ErrorHandler(admin[a].op, admin[a].id, DriverError)
    /\ UNCHANGED <<doctors, slots, bookings, nextDoctor, nextSlot, nextBooking,
                   rowLock, checkedOut, txn>>

\* res.status(...).json(...): the handler that produced a response writes it
\* before Node's single thread runs any other callback.
SendResponse ==
    /\ resp # NoResp
    /\ resp' = NoResp
    /\ UNCHANGED <<doctors, slots, bookings, nextDoctor, nextSlot, nextBooking,
                   rowLock, checkedOut, txn, admin>>

\* ------------------------------------------------------- specifications
SlotArgs == DOMAIN slots \cup {NoSuchId}
DoctorArgs == doctors \cup {NoSuchId}
BookingArgs == 0..(nextBooking - 1)

\* createBooking by the callers P, on a working persistence layer
BookingNext(P) ==
    \/ \E p \in P, s \in SlotArgs : Connect(p, s)
    \/ \E p \in P : Begin(p)
    \/ \E p \in P : LockSlotForUpdate(p)
    \/ \E p \in P : CountConfirmedBookings(p)
    \/ \E p \in P : InsertBooking(p)
    \/ \E p \in P : Commit(p)
    \/ \E p \in P : Rollback(p)
    \/ \E p \in P : Release(p)

CreateNext ==
    \/ CreateDoctor
    \/ \E d \in DoctorArgs, c \in 1..MaxCap : CreateSlot(d, FirstTime, c)

ReadNext ==
    \/ HandleGetSlots
    \/ \E s \in SlotArgs : HandleGetSlotById(s)
    \/ \E id \in BookingArgs : HandleGetBookingById(id)

DeleteNext ==
    \/ \E s \in SlotArgs : SoftDeleteSlot(s)
    \/ \E s \in SlotArgs : DeleteSlotRoute(s)
    \/ \E a \in Admins, d \in DoctorArgs : DeleteDoctorCheck(a, d)
    \/ \E a \in Admins : DeleteDoctorDelete(a)

CapacityNext ==
    \/ \E a \in Admins, s \in SlotArgs, c \in 0..MaxCap : UpdateCapacity(a, s, c)
    \/ \E a \in Admins : UpdateCapacityRead(a)

\* Persistence calls of the callers P and of the admin operations that fail.
FaultNext(P) ==
    \/ \E p \in P, s \in SlotArgs : ConnectFails(p, s)
    \/ \E p \in P : StatementFails(p)
    \/ \E p \in P : RollbackFails(p)
    \/ QueryFails
    \/ \E a \in Admins : SecondQueryFails(a)

\* Every operation, two concurrent callers, a persistence layer whose
\* statements all succeed.
Next ==
    \/ BookingNext(TwoCallers)
    \/ CreateNext
    \/ ReadNext
    \/ DeleteNext
    \/ CapacityNext
    \/ SendResponse

Spec == Init /\ [][Next]_vars

\* Bookings, creation and deletion with persistence calls that may fail; the
\* capacity of a slot is never changed.
FaultyNext ==
    \/ BookingNext(TwoCallers)
    \/ FaultNext(TwoCallers)
    \/ CreateNext
    \/ DeleteNext
    \/ SendResponse

SpecFault == Init /\ [][FaultyNext]_vars

\* Three concurrent callers and reads, on slots whose capacity is never
\* changed and that are never deleted.
StableNext ==
    \/ BookingNext(Callers)
    \/ CreateNext
    \/ ReadNext
    \/ SendResponse

SpecStable == Init /\ [][StableNext]_vars

\* ------------------------------------------------ listing stored slots
\* The read operations on every content the schema allows the tables to
\* have: ListSlots slots of one doctor, with equal or different start times,
\* is_active TRUE, FALSE or NULL, and bookings of status CONFIRMED or PENDING
\* on them.
ListSlots == 3
Times == {1, 2}
ListBookingIds == {1, 2}
SlotRows ==
    [doctorId : {1}, startTime : Times, capacity : {1},
     isActive : {Null, Some(TRUE), Some(FALSE)}]
BookingRows(id) ==
    [id : {id}, slotId : 1..ListSlots, userName : {"Alice"},
     status : {"CONFIRMED", "PENDING"}]

ListInit ==
    /\ doctors = {1}
    /\ slots \in [1..ListSlots -> SlotRows]
    /\ \E chosen \in [ListBookingIds -> {Null} \cup
                        {Some(b) : b \in UNION {BookingRows(id) : id \in ListBookingIds}}] :
          /\ \A id \in ListBookingIds : chosen[id] # Null => chosen[id][1].id = id
          /\ bookings = {chosen[id][1] : id \in {x \in ListBookingIds : chosen[x] # Null}}
    /\ nextDoctor = 2
    /\ nextSlot = ListSlots + 1
    /\ nextBooking = 3
    /\ rowLock = [s \in 1..ListSlots |-> NoTxn]
    /\ checkedOut = {}
    /\ txn = [p \in Callers |-> IdleTxn]
    /\ admin = [a \in Admins |-> IdleAdmin]
    /\ resp = NoResp

ListNext ==
    \/ HandleGetSlots
    \/ \E s \in SlotArgs : HandleGetSlotById(s)
    \/ \E s \in SlotArgs : SoftDeleteSlot(s)
    \/ SendResponse

SpecList == ListInit /\ [][ListNext]_vars

\* ------------------------------------------------- an exhausted pool
\* Two slots of one doctor, and one more createBooking request than the pool
\* has clients: the first PoolMax requests are for slot SlotA, each has been
\* given a client and has sent BEGIN, and the last request, for slot SlotB,
\* has not arrived yet.  The requests for SlotA take the row lock in the
\* order of their arrival.
SlotA == 1
SlotB == 2
Arrival(i) == ToString(i)
PoolCallers == {Arrival(i) : i \in 1..(PoolMax + 1)}
Target(i) == IF i <= PoolMax THEN SlotA ELSE SlotB

PoolInit ==
    /\ doctors = {1}
    /\ slots = [s \in {SlotA, SlotB} |->
                  [doctorId |-> 1, startTime |-> FirstTime, capacity |-> 1,
                   isActive |-> Some(TRUE)]]
    /\ bookings = {}
    /\ nextDoctor = 2
    /\ nextSlot = 3
    /\ nextBooking = 1
    /\ rowLock = [s \in {SlotA, SlotB} |-> NoTxn]
    /\ checkedOut = {Arrival(i) : i \in 1..PoolMax}
    /\ txn = [p \in PoolCallers |->
                IF p \in checkedOut
                THEN [IdleTxn EXCEPT !.pc = "lock", !.slotId = SlotA]
                ELSE IdleTxn]
    /\ admin = [a \in Admins |-> IdleAdmin]
    /\ resp = NoResp

\* The i-th request arrives after the (i-1)-th.
Arrive(i) ==
    /\ i > 1 => txn[Arrival(i - 1)].pc # "idle"
    /\ Connect(Arrival(i), Target(i))

\* The i-th request locks its slot after the earlier requests for that slot.
LockInTurn(i) ==
    /\ \A j \in 1..(i - 1) :
          Target(j) = Target(i) => txn[Arrival(j)].pc \notin {"begin", "lock"}
    /\ LockSlotForUpdate(Arrival(i))

PoolNext ==
    \/ \E i \in 1..(PoolMax + 1) : Arrive(i)
    \/ \E p \in PoolCallers : Begin(p)
    \/ \E i \in 1..(PoolMax + 1) : LockInTurn(i)
    \/ \E p \in PoolCallers : CountConfirmedBookings(p)
    \/ \E p \in PoolCallers : InsertBooking(p)
    \/ \E p \in PoolCallers : Commit(p)
    \/ \E p \in PoolCallers : Rollback(p)
    \/ \E p \in PoolCallers : Release(p)
    \/ ReadNext
    \/ SendResponse

SpecPool == PoolInit /\ [][PoolNext]_vars

\* ------------------------------------------- concurrent admin requests
\* Two DELETE /admin/doctors/:id requests in flight at once: each runs
\* deleteDoctor's SELECT and DELETE as two pool.query calls, and the two
\* requests' statements interleave in any order.
TwoAdmins == {"admin", "second admin"}

AdminsInit ==
    /\ doctors = {}
    /\ slots = <<>>
    /\ bookings = {}
    /\ nextDoctor = 1
    /\ nextSlot = 1
    /\ nextBooking = 1
    /\ rowLock = [s \in SlotIds |-> NoTxn]
    /\ checkedOut = {}
    /\ txn = [p \in Callers |-> IdleTxn]
    /\ admin = [a \in TwoAdmins |-> IdleAdmin]
    /\ resp = NoResp

AdminsNext ==
    \/ BookingNext({"Alice"})
    \/ CreateNext
    \/ \E a \in TwoAdmins, d \in DoctorArgs : DeleteDoctorCheck(a, d)
    \/ \E a \in TwoAdmins : DeleteDoctorDelete(a)
    \/ SendResponse

SpecAdmins == AdminsInit /\ [][AdminsNext]_vars

\* Several DELETE /admin/slots/:slotId requests for the same slot id, the id
\* of a slot that was stored once included: each is one DELETE statement, and
\* the statements of concurrent requests run one after the other in any
\* order, each waiting while a createBooking holds the row lock.
EverSlotArgs == 1..(nextSlot - 1) \cup {NoSuchId}

RemovalNext ==
    \/ BookingNext(TwoCallers)
    \/ CreateNext
    \/ \E s \in EverSlotArgs : DeleteSlotRoute(s)
    \/ SendResponse

SpecRemoval == Init /\ [][RemovalNext]_vars

\* ------------------------------------------------------ fair scheduling
\* One stored slot, two createBooking calls, and the admin and read
\* operations around them.  Every statement returns (with a result or an
\* error) and the event loop runs every callback that is ready: a call whose
\* next step is possible again and again eventually takes it.
LiveInit ==
    /\ doctors = {1}
    /\ slots = [s \in {SlotA} |->
                  [doctorId |-> 1, startTime |-> FirstTime, capacity |-> 1,
                   isActive |-> Some(TRUE)]]
    /\ bookings = {}
    /\ nextDoctor = 2
    /\ nextSlot = 2
    /\ nextBooking = 1
    /\ rowLock = [s \in SlotIds |-> NoTxn]
    /\ checkedOut = {}
    /\ txn = [p \in Callers |-> IdleTxn]
    /\ admin = [a \in Admins |-> IdleAdmin]
    /\ resp = NoResp

\* The next step of createBooking call p, whichever it is.
BookingStep(p) ==
    \/ Begin(p)
    \/ LockSlotForUpdate(p)
    \/ CountConfirmedBookings(p)
    \/ InsertBooking(p)
    \/ Commit(p)
    \/ Rollback(p)
    \/ Release(p)

\* The second statement of admin call a.
AdminStep(a) == UpdateCapacityRead(a) \/ DeleteDoctorDelete(a)

LiveNext ==
    \/ BookingNext(TwoCallers)
    \/ \E p \in TwoCallers : StatementFails(p)
    \/ \E s \in SlotArgs : HandleGetSlotById(s)
    \/ DeleteNext
    \/ \E a \in Admins, s \in SlotArgs : UpdateCapacity(a, s, MaxCap)
    \/ \E a \in Admins : UpdateCapacityRead(a)
    \/ SendResponse

SpecLive ==
    /\ LiveInit
    /\ [][LiveNext]_vars
    /\ WF_vars(SendResponse)
    /\ \A p \in TwoCallers : SF_vars(BookingStep(p))
    /\ \A a \in Admins : SF_vars(AdminStep(a))

\* ================================================================ claims
\* The CONFIRMED bookings stored for slot s.
Confirmed(s) == {b \in bookings : b.slotId = s /\ b.status = "CONFIRMED"}

Min(a, b) == IF a <= b THEN a ELSE b

\* The calls made so far for slot s, and whether each of them has answered.
CallsOn(s) == {p \in Callers : txn[p].pc # "idle" /\ txn[p].slotId = s}
AllAnswered(s) == \A p \in CallsOn(s) : txn[p].pc = "done"

\* C1: while the capacity of a slot is never changed, the number of stored
\* CONFIRMED bookings of the slot never exceeds that capacity, whatever the
\* interleaving of the concurrent createBooking calls (SpecStable).
C1_NoOverbooking ==
    \A s \in DOMAIN slots : Cardinality(Confirmed(s)) <= slots[s].capacity

\* C1 witness: a slot filled to its capacity, with a caller turned away.
C1_Witness ==
    \E s \in DOMAIN slots, p \in Callers :
        /\ Cardinality(Confirmed(s)) = slots[s].capacity
        /\ txn[p].slotId = s
        /\ txn[p].error = "Slot is full."

\* C2: once the N calls made for a slot of capacity C have all answered, with
\* no capacity change and no delete, exactly min(N, C) of them answered 201
\* with a stored CONFIRMED booking and the other N - min(N, C) answered 409
\* "Slot is full." (SpecStable).
C2_ExactlyMinSucceed ==
    \A s \in DOMAIN slots :
        AllAnswered(s) =>
            LET n == Cardinality(CallsOn(s))
                c == slots[s].capacity
                ok == {p \in CallsOn(s) : txn[p].status = 201}
                full == {p \in CallsOn(s) :
                            txn[p].status = 409 /\ txn[p].error = "Slot is full."}
            IN /\ Cardinality(ok) = Min(n, c)
               /\ Cardinality(full) = n - Min(n, c)
               /\ Cardinality(Confirmed(s)) = Min(n, c)
               /\ \A p \in ok : txn[p].booking[1] \in Confirmed(s)

\* C2 witness: every caller has called the same slot and has answered, some
\* with 201 and some with 409.
C2_Witness ==
    \E s \in DOMAIN slots :
        /\ CallsOn(s) = Callers
        /\ AllAnswered(s)
        /\ \E p, q \in Callers : txn[p].status = 201 /\ txn[q].status = 409

\* C3 (as claimed): in every reachable state every slot has at most as many
\* CONFIRMED bookings as its current capacity, under every operation (Spec).
C3_ConfirmedWithinCurrentCapacity ==
    \A s \in DOMAIN slots : slots[s].capacity - Cardinality(Confirmed(s)) >= 0

\* The transaction of caller p has passed the capacity check.
Checked(p) == txn[p].lockedSlot # Null /\ txn[p].confirmedCount >= 0

\* C4: for an existing slot createBooking succeeds exactly when, at its check
\* under the slot lock, the count of CONFIRMED bookings is strictly less than
\* the capacity read under that lock, and fails with "Slot is full." (409)
\* when the count is greater or equal; the count and the capacity it compares
\* are those stored while it holds the lock (Spec).
C4_SucceedsIffBelowCapacity ==
    \A p \in Callers :
        LET s == txn[p].slotId IN
        /\ txn[p].pc \in {"insert", "commit"} =>
              /\ rowLock[s] = p
              /\ txn[p].confirmedCount = Cardinality(Confirmed(s))
              /\ txn[p].lockedSlot[1].capacity = slots[s].capacity
              /\ txn[p].confirmedCount < txn[p].lockedSlot[1].capacity
        /\ (txn[p].pc \in {"rollback", "release"} /\ Checked(p)) =>
              /\ txn[p].error = ""
                    <=> txn[p].confirmedCount < txn[p].lockedSlot[1].capacity
              /\ txn[p].error = "Slot is full."
                    <=> txn[p].confirmedCount >= txn[p].lockedSlot[1].capacity
        /\ txn[p].pc = "done" =>
              /\ txn[p].status = 201 <=> txn[p].error = ""
              /\ txn[p].status = 409 <=> txn[p].error = "Slot is full."

\* C4 witness: a slot filled by successful calls, and the next call on it
\* refused at its check with the count equal to the capacity.
C4_Witness ==
    \E p, q \in Callers :
        /\ p # q
        /\ txn[p].pc = "done" /\ txn[p].status = 201
        /\ txn[q].slotId = txn[p].slotId
        /\ txn[q].pc = "rollback" /\ txn[q].error = "Slot is full."
        /\ txn[q].confirmedCount = txn[q].lockedSlot[1].capacity

\* C5: a createBooking whose lock statement finds no slots row throws "Slot
\* not found.", is rolled back, stores nothing and answers 404, never 201 or
\* 409 (Spec).
C5_AbsentSlotNotFound ==
    /\ [][\A p \in Callers :
            (txn[p].pc = "lock" /\ txn[p].slotId \notin DOMAIN slots
                /\ txn'[p] # txn[p])
            => /\ txn'[p].pc = "rollback"
               /\ txn'[p].error = "Slot not found."
               /\ store' = store]_vars
    /\ [][\A p \in Callers :
            (txn[p].error = "Slot not found." /\ txn'[p] # txn[p])
            => /\ txn'[p].error = "Slot not found."
               /\ txn[p].pc = "rollback" => txn'[p].pc = "release"
               /\ txn[p].pc = "release" => txn'[p].pc = "done"
               /\ store' = store]_vars
    /\ [](\A p \in Callers :
            txn[p].error = "Slot not found." =>
                /\ txn[p].pc \in {"rollback", "release", "done"}
                /\ txn[p].booking = Null
                /\ txn[p].lockedSlot = Null
                /\ \A s \in SlotIds : rowLock[s] # p
                /\ \A b \in bookings : b.userName # UserName(p)
                /\ txn[p].pc = "done" => txn[p].status = 404)

\* C5 witness: a call for an id that no slot has answered 404.
C5_Witness ==
    \E p \in Callers :
        /\ txn[p].pc = "done"
        /\ txn[p].slotId = NoSuchId
        /\ txn[p].status = 404

\* C6: a step of a createBooking call changes the stored doctors, slots and
\* bookings only when it is the COMMIT of a call that succeeds, and then it
\* adds exactly one CONFIRMED booking row for the requested slot and user; a
\* call that fails, with any error, has stored nothing (SpecFault).
C6_OneRowOnSuccessOnly ==
    /\ [][\A p \in Callers :
            txn'[p] # txn[p] =>
                \/ store' = store
                \/ /\ txn[p].pc = "commit"
                   /\ txn'[p].pc = "release"
                   /\ txn'[p].error = ""
                   /\ doctors' = doctors
                   /\ slots' = slots
                   /\ \E b \in bookings' :
                        /\ b \notin bookings
                        /\ bookings' = bookings \cup {b}
                        /\ b.slotId = txn[p].slotId
                        /\ b.userName = UserName(p)
                        /\ b.status = "CONFIRMED"]_vars
    /\ [](\A p \in Callers :
            txn[p].error # "" => \A b \in bookings : b.userName # UserName(p))
    /\ [](\A p \in Callers :
            (txn[p].pc = "done" /\ txn[p].status # 201) => txn[p].error # "")

\* C6 witness: one call has stored its booking and answered 201, another has
\* failed on a persistence error and answered 500, and the one row is stored.
C6_Witness ==
    \E p, q \in Callers :
        /\ txn[p].pc = "done" /\ txn[p].status = 201
        /\ txn[q].pc = "done" /\ txn[q].status = 500
        /\ bookings = {txn[p].booking[1]}

\* The slots whose doctor_id is d, and the bookings whose slot_id is in ss.
SlotsWithDoctor(d) == {s \in DOMAIN slots : slots[s].doctorId = d}
BookingsOn(ss) == {b \in bookings : b.slotId \in ss}

ListedSlotIds == {list[i].id : <<list, i>> \in
                    {<<l, k>> \in getAllSlotsWithMeta \X SlotIds : k \in DOMAIN l}}

\* C9: the step on which softDeleteSlot(s) answers 200 keeps the slot row and
\* every booking, after it getAllSlotsWithMeta does not list s and
\* getSlotWithMetaById(s) is null, and getBookingById returns each booking on
\* s; the same holds of every stored slot whose is_active is FALSE (Spec).
C9_SoftDeleteHidesSlotOnly ==
    /\ [][\A s \in SlotIds :
            (resp = NoResp /\ resp' = Resp("softDeleteSlot", s, 200, Null))
            => /\ s \in DOMAIN slots /\ s \in DOMAIN slots'
               /\ slots'[s] = [slots[s] EXCEPT !.isActive = Some(FALSE)]
               /\ bookings' = bookings
               /\ doctors' = doctors
               /\ getSlotWithMetaById(s)' = Null
               /\ s \notin ListedSlotIds'
               /\ \A b \in BookingsOn({s}) : getBookingById(b.id)' = Some(b)]_vars
    /\ [](\A s \in DOMAIN slots :
            slots[s].isActive = Some(FALSE) =>
                /\ getSlotWithMetaById(s) = Null
                /\ s \notin ListedSlotIds
                /\ \A b \in BookingsOn({s}) : getBookingById(b.id) = Some(b))

\* C9 witness: softDeleteSlot has answered 200 for a slot that has a
\* CONFIRMED booking, and the booking is still returned.
C9_Witness ==
    /\ resp.op = "softDeleteSlot" /\ resp.status = 200
    /\ resp.id \in DOMAIN slots
    /\ \E b \in BookingsOn({resp.id}) :
          b.status = "CONFIRMED" /\ getBookingById(b.id) = Some(b)

\* The responses that carry SlotWithMeta values.
ReturnsSlots ==
    /\ resp.op \in {"getSlots", "getSlotById", "updateSlotCapacity"}
    /\ resp.status = 200

\* C10: every SlotWithMeta returned by getAllSlotsWithMeta,
\* getSlotWithMetaById or updateSlotCapacity has availableSeats = capacity -
\* confirmedCount, with capacity the stored capacity and confirmedCount the
\* number of CONFIRMED bookings stored on the slot when it was read; the
\* difference is returned as it is, negative included (Spec).
C10_AvailableSeatsFormula ==
    ReturnsSlots =>
        \A i \in DOMAIN resp.body :
            LET slot == resp.body[i] IN
            /\ slot.id \in DOMAIN slots
            /\ slot.capacity = slots[slot.id].capacity
            /\ slot.confirmedCount = Cardinality(Confirmed(slot.id))
            /\ slot.availableSeats = slot.capacity - slot.confirmedCount

\* C10 witness: updateSlotCapacity has lowered the capacity below the number
\* of CONFIRMED bookings and returns a negative availableSeats.
C10_Witness ==
    /\ resp.op = "updateSlotCapacity" /\ resp.status = 200
    /\ resp.body[1].availableSeats < 0
    /\ resp.body[1].capacity < resp.body[1].confirmedCount

\* C11 (as claimed): updateSlotCapacity(s, 0) on a stored slot succeeds: its
\* UPDATE statement leaves the stored capacity of s equal to 0 and raises no
\* error (Spec).
C11_ZeroCapacityAccepted ==
    [][\A a \in Admins, s \in SlotIds :
        (s \in DOMAIN slots /\ UpdateCapacity(a, s, 0))
        => /\ slots'[s].capacity = 0
           /\ resp' = NoResp
           /\ admin'[a].op = "updateSlotCapacity"]_vars

\* C12 (as claimed): updateSlotCapacity(s, n), n > 0, on a slot whose row is
\* stored, active or not, stores capacity n whatever the number of CONFIRMED
\* bookings, and then, the row still being stored, returns the slot with
\* capacity n; the request is answered 200 (Spec).
C12_UpdateSucceedsOnStoredSlot ==
    /\ [][\A a \in Admins, s \in SlotIds, n \in 1..MaxCap :
            (s \in DOMAIN slots /\ UpdateCapacity(a, s, n))
            => /\ slots'[s] = [slots[s] EXCEPT !.capacity = n]
               /\ admin'[a].op = "updateSlotCapacity"
               /\ resp' = NoResp]_vars
    /\ [][\A a \in Admins :
            (admin[a].id \in DOMAIN slots /\ UpdateCapacityRead(a))
            => /\ resp'.status = 200
               /\ resp'.body # Null
               /\ resp'.body[1].capacity = slots[admin[a].id].capacity]_vars

\* C13 (as claimed): when updateSlotCapacity answers with an error the stored
\* slot has the capacity it had before the call, and a softDeleteSlot,
\* hardDeleteSlot or deleteDoctor step that answers with an error, and every
\* step of a createBooking that ends in an error, leaves the doctors, slots
\* and bookings as they were (Spec).
C13_NoPartialPersistence ==
    /\ [][\A a \in Admins :
            (admin[a].op = "updateSlotCapacity" /\ admin'[a].op = "idle"
                /\ resp'.status # 200 /\ admin[a].id \in DOMAIN slots)
            => slots[admin[a].id].capacity = admin[a].before]_vars
    /\ [][(resp = NoResp
            /\ resp'.op \in {"updateSlotCapacity", "softDeleteSlot",
                             "hardDeleteSlot", "deleteDoctor"}
            /\ resp'.status # 200)
            => store' = store]_vars
    /\ [](\A p \in DOMAIN txn :
            txn[p].error # "" => \A b \in bookings : b.userName # UserName(p))

\* C14: every stored booking, and every booking a transaction has inserted
\* and not yet committed, has status CONFIRMED; the only step that adds a
\* bookings row is the COMMIT of a createBooking, and it adds the one row
\* that call inserted (Spec).
C14_OnlyConfirmedBookings ==
    /\ [](\A b \in bookings : b.status = "CONFIRMED")
    /\ [](\A p \in DOMAIN txn :
            txn[p].booking # Null => txn[p].booking[1].status = "CONFIRMED")
    /\ [][bookings' \ bookings # {}
            => \E p \in DOMAIN txn :
                  /\ txn[p].pc = "commit" /\ txn'[p].pc = "release"
                  /\ bookings' = bookings \cup {txn[p].booking[1]}]_vars

\* C14 witness: two createBooking calls have stored their bookings.
C14_Witness ==
    \E b, c \in bookings :
        /\ b.id # c.id
        /\ b.status = "CONFIRMED" /\ c.status = "CONFIRMED"
        /\ \E p \in DOMAIN txn : txn[p].pc = "done" /\ txn[p].booking = Some(b)

\* The positions of withTransaction between pool.connect() and
\* client.release().
HoldsClient(p) ==
    txn[p].pc \in {"begin", "lock", "count", "insert", "commit", "rollback", "release"}

\* C15: the callers holding a client of the pool are exactly those whose
\* transaction is between connect and release, so none is held when no
\* transaction is in flight; a client is handed out only by connect and
\* handed back only by the release that ends the transaction, after COMMIT,
\* after ROLLBACK, and after a failing BEGIN, COMMIT or ROLLBACK (SpecFault).
C15_ClientReleasedOnce ==
    /\ [](checkedOut = {p \in DOMAIN txn : HoldsClient(p)})
    /\ []((\A p \in DOMAIN txn : txn[p].pc \in {"idle", "done"}) => checkedOut = {})
    /\ [][\A p \in DOMAIN txn :
            /\ (p \in checkedOut /\ p \notin checkedOut')
                  => (txn[p].pc = "release" /\ txn'[p].pc = "done")
            /\ (p \notin checkedOut /\ p \in checkedOut')
                  => (txn[p].pc = "idle" /\ txn'[p].pc = "begin")
            /\ (txn[p].pc = "release" /\ txn'[p].pc = "done")
                  => (p \in checkedOut /\ p \notin checkedOut')]_vars

\* C15 witness: one transaction has committed and handed its client back,
\* another has failed on a driver error and is about to hand its client back.
C15_Witness ==
    \E p, q \in DOMAIN txn :
        /\ txn[p].pc = "done" /\ txn[p].status = 201 /\ p \notin checkedOut
        /\ txn[q].pc = "release" /\ txn[q].error = DriverError
        /\ checkedOut = {q}

\* C16 (as claimed): a createBooking call never waits for calls on other
\* slots: when every transaction in flight is on another slot, the call gets
\* its client from the pool as soon as it arrives and the row lock of its
\* slot as soon as it asks for it (SpecPool).
C16_OtherSlotNeverWaits ==
    \A i \in 1..(PoolMax + 1) :
        LET p == Arrival(i) IN
        (\A q \in DOMAIN txn \ {p} : HoldsClient(q) => txn[q].slotId # Target(i))
        => /\ txn[p].pc = "idle" => ClientAvailable
           /\ txn[p].pc = "lock" => rowLock[Target(i)] = NoTxn

\* The responses of the read operations.
ReadOps == {"getSlots", "getSlotById", "getBookingById"}

\* C17 (as claimed): a read operation takes no row lock and changes nothing
\* a createBooking transaction waits for, and it is never kept waiting by
\* createBooking transactions that hold or wait for a row lock: it can run
\* in every state (SpecPool).
C17_ReadsNeverWait ==
    /\ [][(resp = NoResp /\ resp'.op \in ReadOps)
            => /\ rowLock' = rowLock
               /\ checkedOut' = checkedOut
               /\ txn' = txn
               /\ store' = store]_vars
    /\ []((\E p \in DOMAIN txn : txn[p].pc = "lock" \/ p \in {rowLock[s] : s \in DOMAIN rowLock})
            => ClientAvailable)

\* The messages of internal (non-domain) errors.
InternalMessages == {DriverError, ConstraintError, NotFoundAfterUpdate}

\* C18 (as claimed): the body of a 500 response carries no internal detail:
\* no field of the body that POST /bookings sends with status 500, and no
\* field of the body the error handler sends, is the message of the
\* underlying error (SpecFault).
C18_NoInternalDetail ==
    /\ \A p \in DOMAIN txn :
          (txn[p].pc = "done" /\ txn[p].status = 500)
          => \A f \in DOMAIN BookingErrorBody(txn[p].error) :
                BookingErrorBody(txn[p].error)[f] \notin InternalMessages
    /\ resp.status = 500
          => \A f \in DOMAIN resp.body[1] : resp.body[1][f] \notin InternalMessages

\* The stored slots that a listing has to return, and the CONFIRMED bookings
\* of slot s as the listing shows them.
StoredActive == {s \in DOMAIN slots : slots[s].isActive # Some(FALSE)}
ShownBookings(s) ==
    {[id |-> b.id, userName |-> b.userName, status |-> b.status] :
        b \in {x \in bookings : x.slotId = s /\ x.status = "CONFIRMED"}}

C21_PureRead ==
    /\ [][(resp = NoResp /\ resp'.op = "getSlotById") =>
            /\ UNCHANGED <<doctors, slots, bookings, nextDoctor, nextSlot,
                           nextBooking, rowLock, checkedOut, txn, admin>>
            /\ \A s \in SlotIds \cup {NoSuchId} :
                  resp'.id = s =>
                     /\ getSlotWithMetaById(s)' = getSlotWithMetaById(s)
                     /\ resp'.body = getSlotWithMetaById(s)'
                     /\ resp'.status = IF resp'.body = Null THEN 404 ELSE 200]_vars
    /\ [](resp.op = "getSlotById" =>
            LET s == resp.id IN
            IF s \in DOMAIN slots /\ slots[s].isActive # Some(FALSE)
            THEN /\ resp.status = 200
                 /\ resp.body[1].id = s
                 /\ resp.body[1].capacity = slots[s].capacity
                 /\ resp.body[1].confirmedCount = Cardinality(Confirmed(s))
                 /\ resp.body[1].availableSeats =
                       slots[s].capacity - Cardinality(Confirmed(s))
            ELSE resp.status = 404 /\ resp.body = Null)

\* A slot is read while a transaction on it holds an uncommitted insert: the
\* read reports the committed count only.
C21_Witness ==
    /\ resp.op = "getSlotById"
    /\ resp.status = 200
    /\ resp.body[1].confirmedCount = 1
    /\ resp.body[1].availableSeats = 1
    /\ \E p \in TwoCallers : txn[p].pc = "commit" /\ txn[p].slotId = resp.id
\* ---------------------------------------------------------------------------
\* C22  At most one createBooking transaction per slot is between its lock
\* acquisition and its commit or rollback.  A transaction in that section
\* owns the row lock of its slot, so no second transaction on the slot has
\* read the confirmed count yet; when the second one counts, the first has
\* committed or rolled back, and the count it reads is the number of
\* committed CONFIRMED bookings of the slot, the first one's insert included.
InCriticalSection(p) ==
    \/ txn[p].pc \in {"count", "insert", "commit"}
    \/ txn[p].pc = "rollback" /\ txn[p].lockedSlot # Null

C22_OneTransactionPerSlot ==
    /\ \A p \in Callers :
          InCriticalSection(p) =>
             /\ txn[p].slotId \in DOMAIN rowLock
             /\ rowLock[txn[p].slotId] = p
    /\ \A p, q \in Callers :
          (p # q /\ InCriticalSection(p) /\ InCriticalSection(q)) =>
             txn[p].slotId # txn[q].slotId
    /\ \A q \in Callers :
          (InCriticalSection(q) /\ txn[q].confirmedCount >= 0) =>
             /\ txn[q].confirmedCount = Cardinality(Confirmed(txn[q].slotId))
             /\ \A p \in Callers \ {q} :
                   (txn[p].slotId = txn[q].slotId /\ txn[p].booking # Null) =>
                      txn[p].booking[1] \in Confirmed(txn[q].slotId)

\* The second transaction on a slot has counted the committed insert of the
\* first, which is finished.
C22_Witness ==
    \E p, q \in Callers :
       /\ p # q
       /\ txn[p].pc = "done" /\ txn[p].status = 201
       /\ txn[q].slotId = txn[p].slotId
       /\ txn[q].pc = "insert"
       /\ txn[q].confirmedCount = 1
       /\ \E r \in Callers \ {p, q} :
             txn[r].pc = "lock" /\ txn[r].slotId = txn[p].slotId
\* ---------------------------------------------------------------------------
\* C23  The steps of createBooking occur in the order BEGIN, lock, count,
\* capacity check, insert, COMMIT (any step may instead fail into ROLLBACK).
\* Every booking insert is made by a transaction that holds the row lock of
\* its slot and has counted the slot's confirmed bookings below the locked
\* capacity, and every booking that reaches the store was inserted and
\* committed by such a transaction: no path inserts a booking without the
\* slot lock.
StepOrder ==
    {<<"idle", "begin">>, <<"begin", "lock">>, <<"lock", "count">>,
     <<"count", "insert">>, <<"insert", "commit">>, <<"commit", "release">>,
     <<"release", "done">>, <<"rollback", "release">>, <<"idle", "done">>}
    \cup {<<pc, "rollback">> : pc \in {"begin", "lock", "count", "insert", "commit"}}

C23_LockCountInsertOrder ==
    [][/\ \A p \in TwoCallers :
            /\ txn'[p].pc # txn[p].pc => <<txn[p].pc, txn'[p].pc>> \in StepOrder
            /\ (txn[p].pc = "lock" /\ txn'[p].pc = "count") =>
                  /\ txn'[p].lockedSlot # Null
                  /\ rowLock[txn[p].slotId] = NoTxn
                  /\ rowLock'[txn[p].slotId] = p
            /\ (txn[p].pc = "count" /\ txn'[p].pc = "insert") =>
                  /\ rowLock[txn[p].slotId] = p
                  /\ txn'[p].confirmedCount = Cardinality(Confirmed(txn[p].slotId))
                  /\ txn'[p].confirmedCount < txn[p].lockedSlot[1].capacity
            /\ (txn[p].booking = Null /\ txn'[p].booking # Null) =>
                  /\ txn[p].pc = "insert"
                  /\ txn[p].lockedSlot # Null
                  /\ txn[p].confirmedCount >= 0
                  /\ rowLock[txn[p].slotId] = p
                  /\ rowLock'[txn[p].slotId] = p
                  /\ bookings' = bookings
       /\ \A b \in bookings' \ bookings :
            \E p \in TwoCallers :
               /\ txn[p].pc = "commit" /\ txn'[p].pc = "release"
               /\ txn[p].booking = Some(b)
               /\ rowLock[b.slotId] = p]_vars

\* A transaction that went through lock, count and insert is about to commit
\* its booking, the second of the slot, and still holds the lock.
C23_Witness ==
    \E p \in TwoCallers :
       /\ txn[p].pc = "commit"
       /\ txn[p].booking # Null
       /\ txn[p].confirmedCount = 1
       /\ rowLock[txn[p].slotId] = p
\* ---------------------------------------------------------------------------
\* C24  updateSlotCapacity, softDeleteSlot and hardDeleteSlot issue no lock
\* statement of their own, but the UPDATE or DELETE each of them runs on the
\* slot row waits while a createBooking transaction holds the row's FOR
\* UPDATE lock.  While a transaction owns the lock of a slot, the slot row
\* stays stored with the same capacity, activity flag and doctor, and its
\* bookings are not removed; the capacity a booking was checked against is
\* the stored capacity when it commits.
C24_WritesWaitForSlotLock ==
    [][\A s \in SlotIds :
         (s \in DOMAIN rowLock /\ rowLock[s] # NoTxn) =>
            /\ s \in DOMAIN slots
            /\ s \in DOMAIN slots'
            /\ slots'[s] = slots[s]
            /\ slots[s].doctorId \in doctors'
            /\ Confirmed(s) \subseteq Confirmed(s)'
            /\ \A p \in TwoCallers :
                  (txn[p].pc = "commit" /\ txn'[p].pc = "release"
                     /\ txn[p].slotId = s) =>
                        /\ txn[p].lockedSlot[1].capacity = slots'[s].capacity
                        /\ Cardinality(Confirmed(s)') <= slots'[s].capacity]_vars

\* The statement of the claim as written: whenever a createBooking
\* transaction holds the lock of a slot, each of the three operations on
\* that slot can still take effect.
C24_WritesIgnoreSlotLock ==
    \A s \in DOMAIN slots :
       (resp = NoResp /\ ClientAvailable /\ s \in DOMAIN rowLock
          /\ rowLock[s] # NoTxn /\ \A a \in Admins : admin[a].op = "idle") =>
          /\ ENABLED HardDeleteSlot(s)
          /\ ENABLED SoftDeleteSlot(s)
          /\ \A a \in Admins : ENABLED UpdateCapacity(a, s, 1)

\* A capacity decrease has landed on a slot with a committed booking while
\* another createBooking on the slot is in flight and has not yet the lock.
C24_Witness ==
    /\ resp.op = "updateSlotCapacity"
    /\ resp.status = 200
    /\ resp.body[1].capacity = 1
    /\ resp.body[1].confirmedCount = 1
    /\ rowLock[resp.id] = NoTxn
    /\ \E p \in TwoCallers : txn[p].pc = "lock" /\ txn[p].slotId = resp.id
\* ---------------------------------------------------------------------------
\* C25  createBooking does not look at isActive.  On a stored slot that is
\* soft-deleted, which getSlotWithAvailabilityById reports as not found, the
\* lock step finds the row and takes the lock, the capacity check passes
\* whenever the confirmed count is below the capacity, and the commit stores
\* a CONFIRMED booking of the slot; the call is answered 201.
SoftDeleted(s) == s \in DOMAIN slots /\ slots[s].isActive = Some(FALSE)

C25_BooksSoftDeletedSlot ==
    [][\A p \in TwoCallers :
         LET s == txn[p].slotId IN
         (SoftDeleted(s) /\ txn'[p] # txn[p]) =>
            /\ getSlotWithMetaById(s) = Null
            /\ txn[p].pc = "lock" =>
                  (txn'[p].pc = "count" /\ txn'[p].error = "" /\ rowLock'[s] = p)
            /\ txn[p].pc = "count" =>
                  IF Cardinality(Confirmed(s)) < slots[s].capacity
                  THEN txn'[p].pc = "insert" /\ txn'[p].error = ""
                  ELSE txn'[p].pc = "rollback" /\ txn'[p].error = "Slot is full."
            /\ txn[p].pc = "insert" =>
                  (txn'[p].booking # Null /\ txn'[p].booking[1].status = "CONFIRMED")
            /\ txn[p].pc = "commit" =>
                  (txn[p].booking[1] \in Confirmed(s)' /\ SoftDeleted(s)')
            /\ (txn[p].pc = "release" /\ txn[p].error = "") =>
                  txn'[p].status = 201]_vars

\* A createBooking that took the lock of a soft-deleted slot, found one
\* confirmed booking under capacity 2 and inserted, is about to commit, while
\* a read of the slot reports it as not found.
C25_Witness ==
    \E p \in TwoCallers :
       /\ txn[p].pc = "commit"
       /\ SoftDeleted(txn[p].slotId)
       /\ rowLock[txn[p].slotId] = p
       /\ txn[p].confirmedCount = 1
       /\ txn[p].booking # Null
       /\ getSlotWithMetaById(txn[p].slotId) = Null
\* ---------------------------------------------------------------------------
\* C26  Referential integrity holds in every reachable state, whatever the
\* interleaving: every stored booking references a stored slot, every stored
\* slot references a stored doctor, and a transaction's uncommitted booking
\* references a stored slot whose row it has locked.  A hardDeleteSlot or
\* deleteDoctor racing with an in-flight createBooking or createSlot leaves
\* no orphan row.  createSlot with a doctorId of no stored doctor fails and
\* stores nothing; a new slot always references a stored doctor.
C26_ReferentialIntegrity ==
    /\ [](\A b \in bookings :
            b.slotId \in DOMAIN slots /\ slots[b.slotId].doctorId \in doctors)
    /\ [](\A s \in DOMAIN slots : slots[s].doctorId \in doctors)
    /\ [](\A p \in TwoCallers :
            txn[p].booking # Null /\ txn[p].pc = "commit" =>
               /\ txn[p].booking[1].slotId \in DOMAIN slots
               /\ rowLock[txn[p].booking[1].slotId] = p)
    /\ [][/\ \A s \in DOMAIN slots' \ DOMAIN slots :
               slots'[s].doctorId \in doctors /\ slots'[s].doctorId \in doctors'
          /\ (resp = NoResp /\ resp'.op = "createSlot") =>
               \A d \in DoctorIds \cup {NoSuchId}, c \in 1..MaxCap :
                  (CreateSlot(d, FirstTime, c) /\ d \notin doctors) =>
                     /\ store' = store
                     /\ nextSlot' = nextSlot
                     /\ resp'.status = UnhandledStatus]_vars

\* A hard delete has removed a slot and its committed booking while another
\* createBooking on that slot is in flight.
C26_Witness ==
    /\ resp.op = "hardDeleteSlot"
    /\ resp.status = 200
    /\ resp.id \notin DOMAIN slots
    /\ \E p, q \in TwoCallers :
          /\ txn[p].pc = "done" /\ txn[p].status = 201 /\ txn[p].slotId = resp.id
          /\ txn[q].pc = "lock" /\ txn[q].slotId = resp.id
\* ---------------------------------------------------------------------------
\* C27  A booking is never modified after it is created, and it is removed
\* only by a hard delete of its slot or a delete of that slot's doctor.
\* Across every step a stored booking either stays, with the same id, slot,
\* user and status, or its slot row is removed by a hardDeleteSlot or
\* deleteDoctor answered 200; createBooking, updateSlotCapacity,
\* softDeleteSlot and the reads leave every stored booking present and
\* unchanged.
C27_BookingsImmutable ==
    [][/\ \A b \in bookings :
            \/ b \in bookings'
            \/ /\ b.slotId \in DOMAIN slots
               /\ b.slotId \notin DOMAIN slots'
               /\ resp'.op \in {"hardDeleteSlot", "deleteDoctor"}
               /\ resp'.status = 200
       /\ \A b \in bookings, c \in bookings' : c.id = b.id => c = b
       /\ (\/ \E p \in TwoCallers : txn'[p] # txn[p]
           \/ \E a \in Admins :
                 /\ admin'[a] # admin[a]
                 /\ "updateSlotCapacity" \in {admin[a].op, admin'[a].op}
           \/ resp'.op \in ReadOps \cup {"softDeleteSlot", "updateSlotCapacity"})
          => bookings \subseteq bookings']_vars

\* A capacity update and its read-back have run on a slot with two stored
\* bookings, which are both still there.
C27_Witness ==
    /\ resp.op = "updateSlotCapacity"
    /\ resp.status = 200
    /\ resp.body[1].capacity = 1
    /\ Cardinality(Confirmed(resp.id)) = 2
\* ---------------------------------------------------------------------------
\* C28 (as claimed): of concurrent deleteDoctor calls for the same doctor at
\* most one reports success and every other fails with DoctorNotFound: a
\* call is answered 200 only if the doctor row was still stored when its
\* DELETE ran and that DELETE removed it, and a call whose DELETE finds no
\* doctor row is answered 404.
C28_OneDeleteDoctorSucceeds ==
    [][\A d \in DoctorIds :
         (resp = NoResp /\ resp'.op = "deleteDoctor" /\ resp'.id = d) =>
            /\ resp'.status = 200 => (d \in doctors /\ d \notin doctors')
            /\ d \notin doctors => resp'.status = 404]_vars
\* ---------------------------------------------------------------------------
\* C30  Of concurrent hardDeleteSlot calls for the same stored slot exactly
\* one succeeds and every other fails with SlotNotFound.  Each call is one
\* DELETE statement: it is answered 200 exactly when the slot row was stored
\* when the statement ran, and then that statement removed the row; a call
\* that finds no row is answered 404 and changes nothing.  A removed slot id
\* is never stored again (a new slot takes the next id), so no later call on
\* it succeeds.
C30_OneHardDeleteSucceeds ==
    [][/\ \A s \in SlotIds \cup {NoSuchId} :
            (resp = NoResp /\ resp'.op = "hardDeleteSlot" /\ resp'.id = s) =>
               /\ resp'.status \in {200, 404}
               /\ resp'.status = 200 <=> s \in DOMAIN slots
               /\ resp'.status = 200 => s \notin DOMAIN slots'
               /\ resp'.status = 404 => store' = store
       /\ \A s \in DOMAIN slots' \ DOMAIN slots :
            s = nextSlot /\ nextSlot' = nextSlot + 1
       /\ nextSlot' >= nextSlot
       /\ \A s \in DOMAIN slots : s < nextSlot]_vars

\* A second hardDeleteSlot on a slot that an earlier call removed is
\* answered SlotNotFound.
C30_Witness ==
    /\ resp.op = "hardDeleteSlot"
    /\ resp.status = 404
    /\ resp.id \in 1..(nextSlot - 1)
    /\ resp.id \notin DOMAIN slots
    /\ \E p \in TwoCallers : txn[p].slotId = resp.id /\ txn[p].status = 201
\* ---------------------------------------------------------------------------
\* C29  Under fair scheduling, with statements that always return, every
\* createBooking call that has started eventually completes, with success,
\* SlotNotFound, SlotFull or an internal failure, and a completed call holds
\* no row lock and no pool client.  Every admin call that has run its first
\* statement eventually runs its second, also when that one must wait for a
\* row lock: no set of concurrent createBooking, updateSlotCapacity, delete
\* and read calls deadlocks.
C29_EveryBookingCompletes ==
    /\ \A p \in TwoCallers :
          (txn[p].pc \notin {"idle", "done"}) ~>
             (/\ txn[p].pc = "done"
              /\ txn[p].status \in {201, 404, 409, UnhandledStatus}
              /\ p \notin checkedOut
              /\ \A s \in DOMAIN rowLock : rowLock[s] # p)
    /\ [](\A p \in TwoCallers :
            txn[p].pc \in {"idle", "release", "done"} =>
               \A s \in DOMAIN rowLock : rowLock[s] # p)
    /\ [](\A p \in TwoCallers :
            txn[p].pc \in {"idle", "done"} => p \notin checkedOut)
    /\ \A a \in Admins : (admin[a].op # "idle") ~> (admin[a].op = "idle")

\* Both createBooking calls on the slot of capacity 1 have completed, one
\* with success and one with SlotFull, and no lock or client is held.
C29_Witness ==
    /\ \E p, q \in TwoCallers :
          /\ txn[p].pc = "done" /\ txn[p].status = 201 /\ txn[p].slotId = SlotA
          /\ txn[q].pc = "done" /\ txn[q].status = 409 /\ txn[q].slotId = SlotA
    /\ checkedOut = {}
    /\ \A s \in DOMAIN rowLock : rowLock[s] = NoTxn
====
